---- MODULE Spec2Model ----
(***************************************************************************)
(* Sibling Marker (src/__init__.py): the sibling coordination engine of    *)
(* an Anki add-on.  Notes (Records) carry tags (labels); cards (Items)     *)
(* carry queue / type / due.  The engine's handlers are modelled as        *)
(* atomic actions, since the add-on runs synchronously inside the host's   *)
(* event handlers.                                                         *)
(***************************************************************************)
EXTENDS Integers, Sequences, FiniteSets, TLC

\* ------------------------------------------------------------------ bounds
\* The wall clock (milliseconds in the code) is capped at MaxTime.
MaxTime == 4
\* The scheduling day advances from Day0 to at most Day0 + MaxDays.
MaxDays == 1
\* The largest min_gap_days passed to spread_review_card_due_dates.
MaxGap == 2
\* How many cards the user keeps suspended by hand at a time.
MaxUserSuspended == 1
\* How many membership edits (mark, add, unmark) a run holds.
MaxEdits == 2
\* How many reviews are answered on this device in a run.
MaxReviews == 1
\* How many reviews made on other devices a run holds.
MaxRemote == 2

\* --------------------------------------------------------------- universe
NoteIds == {1, 2, 3}
CardIds == {1, 2, 3, 4}
\* card id -> owning note id, one layout per element
Topologies == { <<1, 1, 2, 2>>, <<1, 2, 1, 2>>, <<1, 2, 3, 3>> }
Groups == {"g1", "g2"}
NoGroup == "none"
\* first scheduling day of a run (the scenario day of spec section 8)
Day0 == 100

\* host queue and type codes (Anki), as the comparisons of the code read them
QUEUE_SUSPENDED == -1
QUEUE_BURIED == -3
QUEUE_NEW == 0
QUEUE_LRN == 1
QUEUE_REV == 2
QUEUE_DAY_LRN == 3
TYPE_NEW == 0
TYPE_LRN == 1
TYPE_REV == 2

VARIABLES
    nid,        \* card id -> note id (fixed after Init)
    tags,       \* note id -> set of labels <<prefix, group name>>
    cards,      \* card id -> [queue, type, due]
    revlog,     \* review history of this device: set of [id, cid]
    remote,     \* review entries made on another device, not yet replicated
    last_check, \* config "sibling_marker_last_check"
    now,        \* wall clock
    today,      \* col.sched.today
    suspBy,     \* history: who suspended a card ("none", "user", "seq")
    replayed,   \* history: revlog entries whose card went through the Bury Coordinator
    edits,      \* history: number of membership edits so far
    op          \* the last handler that ran, with its result

vars == <<nid, tags, cards, revlog, remote, last_check, now, today, suspBy, replayed, edits, op>>

\* ---------------------------------------------------------------- helpers
Min(S) == CHOOSE x \in S : \A y \in S : x <= y

RECURSIVE SortedSeq(_)
\* a finite set of integers as an ascending sequence (list.sort by id)
SortedSeq(S) == IF S = {} THEN << >> ELSE <<Min(S)>> \o SortedSeq(S \ {Min(S)})

Range(s) == { s[i] : i \in 1..Len(s) }

\* all orderings of a finite set, as sequences without repetition
Perms(S) == { s \in [1..Cardinality(S) -> S] : Range(s) = S }

\* ------------------------------------------------------------ label codec
TAG_PREFIX == "sibling::"
SUSPENDED_TAG_PREFIX == "sibling-suspended::"

\* str.startswith on a label <<prefix, name>>
startswith(t, p) == t[1] = p

get_sibling_tag(group_name) == <<TAG_PREFIX, group_name>>

suspended_tag(group_name) == <<SUSPENDED_TAG_PREFIX, group_name>>

extract_group_name(t) == IF startswith(t, TAG_PREFIX) THEN t[2] ELSE NoGroup

\* the sibling labels of a label set
get_sibling_tags_for_note(tgs, n) == { t \in tgs[n] : startswith(t, TAG_PREFIX) }

\* ------------------------------------------------------------ group index
\* mw.col.find_notes("tag:<tag>")
find_notes(tgs, t) == { n \in NoteIds : t \in tgs[n] }

\* group name -> member notes, for every group that has a label somewhere
get_all_sibling_groups(tgs) ==
    [ g \in { extract_group_name(t) : t \in UNION { get_sibling_tags_for_note(tgs, n) : n \in NoteIds } }
        |-> find_notes(tgs, get_sibling_tag(g)) ]

\* only the first sibling label of the list is taken
sibling_tags_first_only(tag_list) ==
    LET all == SelectSeq(tag_list, LAMBDA t : startswith(t, TAG_PREFIX))
    IN IF all = << >> THEN << >> ELSE << all[1] >>

\* get_sibling_tags_for_note on the note's label list, order kept
sibling_tags_in_order(tag_list) ==
    SelectSeq(tag_list, LAMBDA t : startswith(t, TAG_PREFIX))

\* the (group_name, nid) appends of one note, in label order (lines 120-125)
RECURSIVE note_appends(_, _, _)
note_appends(n, ts, k) ==
    IF k > Len(ts) THEN << >>
    ELSE << <<extract_group_name(ts[k]), n>> >> \o note_appends(n, ts, k + 1)

\* the appends of the whole scan: notes in host order, labels in list order
RECURSIVE scan_appends(_, _, _)
scan_appends(note_order, tag_lists, k) ==
    IF k > Len(note_order) THEN << >>
    ELSE note_appends(note_order[k], sibling_tags_in_order(tag_lists[note_order[k]]), 1)
           \o scan_appends(note_order, tag_lists, k + 1)

\* the dict built by get_all_sibling_groups(): group name -> list of nids
groups_dict(note_order, tag_lists) ==
    LET apps == scan_appends(note_order, tag_lists, 1)
        nids(g) == SelectSeq(apps, LAMBDA a : a[1] = g)
    IN [ g \in { apps[i][1] : i \in 1..Len(apps) } |->
           [ i \in 1..Len(nids(g)) |-> nids(g)[i][2] ] ]

\* note.card_ids() / note.cards()
card_ids(n) == { c \in CardIds : nid[c] = n }

\* the notes of a selection of cards (deduplicated)
notes_of(sel) == { nid[c] : c \in sel }

\* SELECT COUNT() FROM revlog WHERE cid = ?
has_reviews(rl, c) == Cardinality({ e \in rl : e.cid = c })

\* -------------------------------------------------- suspend/release sequencer
\* the selected cards that are new (queue == 0 and type == 0)
new_cards(cds, sel) == { c \in sel : cds[c].queue = QUEUE_NEW /\ cds[c].type = TYPE_NEW }

\* suspension decided per Record: every card of the first new card's note stays
cards_to_suspend_by_record(cds, sel) ==
    IF Cardinality(new_cards(cds, sel)) < 2 THEN {}
    ELSE { c \in new_cards(cds, sel) : nid[c] # nid[Min(new_cards(cds, sel))] }

\* new_cards[1:] after the sort by id; nothing when fewer than two are new
cards_to_suspend(cds, sel) ==
    IF Cardinality(new_cards(cds, sel)) < 2 THEN {}
    ELSE new_cards(cds, sel) \ { Min(new_cards(cds, sel)) }

\* every card but the first new one gets queue -1, its note the marker of the group
suspend_new_card_siblings(cds, tgs, group_name, sel) ==
    LET rest == cards_to_suspend(cds, sel) IN
    [ cards |-> [ c \in CardIds |->
                    IF c \in rest THEN [cds[c] EXCEPT !.queue = QUEUE_SUSPENDED] ELSE cds[c] ],
      tags  |-> [ n \in NoteIds |->
                    IF \E c \in rest : nid[c] = n
                    THEN tgs[n] \cup { suspended_tag(group_name) } ELSE tgs[n] ],
      ret   |-> Cardinality(rest) ]

\* card.queue == -1 and any(t.startswith(SUSPENDED_TAG_PREFIX) for t in note.tags)
is_suspended_sibling(cds, tgs, c) ==
    /\ cds[c].queue = QUEUE_SUSPENDED
    /\ \E t \in tgs[nid[c]] : startswith(t, SUSPENDED_TAG_PREFIX)

\* note.tags = [t for t in note.tags if not t.startswith(SUSPENDED_TAG_PREFIX)]
strip_suspended_tags(ts) == { t \in ts : ~startswith(t, SUSPENDED_TAG_PREFIX) }

\* has_reviews == 0 and card.type == 0
blocks_release(cds, rl, c) == has_reviews(rl, c) = 0 /\ cds[c].type = TYPE_NEW

RECURSIVE scan_group(_, _, _, _, _)
\* the loop over one group's cards in ascending id (lines 576-605); st carries
\* cards, tags, previous_all_reviewed (prev), unsuspended_one (one), the count
\* and the log of <<group, card>> releases
scan_group(g, cs, i, rl, st) ==
    IF i > Len(cs) THEN st
    ELSE LET c == cs[i] IN
         IF is_suspended_sibling(st.cards, st.tags, c)
         THEN IF st.prev /\ ~st.one
              THEN scan_group(g, cs, i + 1, rl,
                     [ st EXCEPT !.cards[c].queue = QUEUE_NEW,
                                 !.tags[nid[c]] = strip_suspended_tags(@),
                                 !.ret = @ + 1,
                                 !.one = TRUE,
                                 !.log = Append(@, <<g, c>>) ])
              ELSE scan_group(g, cs, i + 1, rl, st)
         ELSE IF blocks_release(st.cards, rl, c)
              THEN scan_group(g, cs, i + 1, rl, [st EXCEPT !.prev = FALSE])
              ELSE scan_group(g, cs, i + 1, rl, st)

\* the cards of a group's member notes, sorted by card id
group_cards_sorted(members) == SortedSeq(UNION { card_ids(n) : n \in members })

RECURSIVE scan_groups(_, _, _, _, _)
\* the loop over groups.items() (line 555), in the order the host returned them
scan_groups(order, k, groups, rl, st) ==
    IF k > Len(order) THEN st
    ELSE scan_groups(order, k + 1, groups, rl,
           scan_group(order[k], group_cards_sorted(groups[order[k]]), 1, rl,
                      [st EXCEPT !.prev = TRUE, !.one = FALSE]))

\* only the group the host returns first is scanned
check_first_group_only(cds, tgs, rl, order) ==
    scan_groups(IF order = << >> THEN << >> ELSE << order[1] >>, 1, get_all_sibling_groups(tgs), rl,
                [ cards |-> cds, tags |-> tgs, prev |-> TRUE, one |-> FALSE,
                  ret |-> 0, log |-> << >> ])

\* check_and_unsuspend_siblings(): groups is the snapshot taken at line 552
check_and_unsuspend_siblings(cds, tgs, rl, order) ==
    scan_groups(order, 1, get_all_sibling_groups(tgs), rl,
                [ cards |-> cds, tags |-> tgs, prev |-> TRUE, one |-> FALSE,
                  ret |-> 0, log |-> << >> ])

\* -------------------------------------------------------- due-date spreader
\* the cards due tomorrow are collected as well
review_cards_due_soon(cds, tgs, tdy, group_name) ==
    { c \in UNION { card_ids(n) : n \in find_notes(tgs, get_sibling_tag(group_name)) } :
        cds[c].queue = QUEUE_REV /\ cds[c].due <= tdy + 1 }

\* review cards of the group due today or earlier (line 629)
review_cards_due(cds, tgs, tdy, group_name) ==
    { c \in UNION { card_ids(n) : n \in find_notes(tgs, get_sibling_tag(group_name)) } :
        cds[c].queue = QUEUE_REV /\ cds[c].due <= tdy }

\* the key with the identifier tie-break reversed
due_before_desc_id(cds, a, b) ==
    cds[a].due < cds[b].due \/ (cds[a].due = cds[b].due /\ a >= b)

\* key=lambda c: (c.due, c.id)
due_before(cds, a, b) == cds[a].due < cds[b].due \/ (cds[a].due = cds[b].due /\ a <= b)

RECURSIVE sort_by_due(_, _)
sort_by_due(cds, S) ==
    IF S = {} THEN << >>
    ELSE LET m == CHOOSE x \in S : \A y \in S : due_before(cds, x, y)
         IN <<m>> \o sort_by_due(cds, S \ {m})

\* the position dropped from the new due value
new_due_same_day(tdy, i, min_gap_days) == tdy + min_gap_days

\* new_due = today + (i * min_gap_days), i the 1-based position in the remainder
new_due(tdy, i, min_gap_days) == tdy + (i * min_gap_days)

spread_review_card_due_dates(cds, tgs, tdy, group_name, min_gap_days) ==
    LET due_set == review_cards_due(cds, tgs, tdy, group_name)
        sorted  == sort_by_due(cds, due_set)
        pos(c)  == CHOOSE k \in 1..Len(sorted) : sorted[k] = c
        moved   == IF Cardinality(due_set) < 2 THEN {}
                   ELSE { c \in due_set : pos(c) > 1
                            /\ cds[c].due # new_due(tdy, pos(c) - 1, min_gap_days) }
    IN [ cards |-> [ c \in CardIds |->
                       IF c \in moved
                       THEN [cds[c] EXCEPT !.due = new_due(tdy, pos(c) - 1, min_gap_days)]
                       ELSE cds[c] ],
         ret   |-> Cardinality(moved) ]

\* min_gap_days: int = 1
DEFAULT_MIN_GAP_DAYS == 1

DAYS_OFFSET == 1

\* siblings in review due today or earlier are pushed to today + days_offset
reschedule_targets(cds, tgs, tdy, c) ==
    { x \in CardIds :
        /\ \E t \in get_sibling_tags_for_note(tgs, nid[c]) :
              nid[x] \in find_notes(tgs, t) \ { nid[c] }
        /\ cds[x].queue = QUEUE_REV /\ cds[x].due <= tdy }

reschedule_review_siblings(cds, tgs, tdy, c, days_offset) ==
    LET hit == reschedule_targets(cds, tgs, tdy, c) IN
    [ cards |-> [ x \in CardIds |->
                    IF x \in hit THEN [cds[x] EXCEPT !.due = tdy + days_offset] ELSE cds[x] ],
      ret   |-> Cardinality(hit) ]

\* --------------------------------------------------------- bury coordinator
\* the due value of review and day-learning cards is not looked at
should_bury_any_due(cds, tdy, x) == cds[x].queue >= 0

\* lines 427-437: active, and new / learning, or review / day-learning due by today
should_bury(cds, tdy, x) ==
    /\ cds[x].queue >= 0
    /\ \/ cds[x].queue = QUEUE_NEW
       \/ cds[x].queue = QUEUE_LRN
       \/ (cds[x].queue = QUEUE_REV /\ cds[x].due <= tdy)
       \/ (cds[x].queue = QUEUE_DAY_LRN /\ cds[x].due <= tdy)

\* the cards one sibling tag of the answered card's note contributes (lines 412-440)
bury_candidates(cds, tgs, tdy, c, t) ==
    { x \in UNION { card_ids(n) : n \in find_notes(tgs, t) \ { nid[c] } } :
        x # c /\ should_bury(cds, tdy, x) }

\* cards_to_bury: Set[int], filled over all sibling tags of the note
cards_to_bury(cds, tgs, tdy, c) ==
    UNION { bury_candidates(cds, tgs, tdy, c, t) : t \in get_sibling_tags_for_note(tgs, nid[c]) }

RECURSIVE concat_per_tag(_, _, _, _, _)
concat_per_tag(cds, tgs, tdy, c, ts) ==
    IF ts = {} THEN << >>
    ELSE LET t == CHOOSE x \in ts : TRUE
         IN SortedSeq(bury_candidates(cds, tgs, tdy, c, t))
              \o concat_per_tag(cds, tgs, tdy, c, ts \ {t})

\* a list that is extended per tag instead of a set
bury_argument_per_tag(cds, tgs, tdy, c) ==
    concat_per_tag(cds, tgs, tdy, c, get_sibling_tags_for_note(tgs, nid[c]))

\* list(cards_to_bury), the argument of col.sched.bury_cards (line 446)
bury_argument(cds, tgs, tdy, c) == SortedSeq(cards_to_bury(cds, tgs, tdy, c))

\* bury_custom_siblings(card): the commands issued, the cards after them, the count
bury_custom_siblings(cds, tgs, tdy, c) ==
    LET arg == bury_argument(cds, tgs, tdy, c) IN
    [ cmds  |-> IF arg # << >> THEN << arg >> ELSE << >>,
      cards |-> [ x \in CardIds |->
                    IF x \in Range(arg) THEN [cds[x] EXCEPT !.queue = QUEUE_BURIED] ELSE cds[x] ],
      ret   |-> IF arg # << >> THEN Cardinality(cards_to_bury(cds, tgs, tdy, c)) ELSE 0 ]

\* ------------------------------------------------------------ bookkeeping
\* what the last handler was and what it returned
OpRec(name, g, full, arg, ret, ret2, cmds, log) ==
    [ name |-> name, g |-> g, full |-> full, arg |-> arg,
      ret |-> ret, ret2 |-> ret2, cmds |-> cmds, log |-> log ]

\* who suspended each card, after a step by `actor` that left the cards as cds
SuspendedBy(cds, actor) ==
    [ c \in CardIds |->
        IF cds[c].queue # QUEUE_SUSPENDED THEN "none"
        ELSE IF cards[c].queue = QUEUE_SUSPENDED THEN suspBy[c]
        ELSE actor ]

\* the selection holds every card of the notes it touches
whole_notes(sel) == sel = UNION { card_ids(n) : n \in notes_of(sel) }

\* ------------------------------------------------------ membership manager
\* the groups the notes already belong to (lines 196-204)
existing_groups(tgs, note_ids) ==
    { extract_group_name(t) : t \in UNION { get_sibling_tags_for_note(tgs, n) : n \in note_ids } }

\* names generate_group_id() can return: any name no group uses yet
fresh_names(tgs) == Groups \ DOMAIN get_all_sibling_groups(tgs)

\* the names lines 208-240 can resolve to, for an explicit name (or NoGroup) and
\* the answer to the existing-groups question; empty when the caller cancels
resolved_names(tgs, note_ids, group_name, reply) ==
    IF existing_groups(tgs, note_ids) # {} /\ group_name = NoGroup
    THEN IF reply = "cancel" THEN {}
         ELSE IF reply = "yes" THEN existing_groups(tgs, note_ids)
         ELSE fresh_names(tgs)
    ELSE IF group_name # NoGroup THEN { group_name }
    ELSE fresh_names(tgs)

\* every note counted as modified, tagged before or not
notes_to_tag_all(tgs, note_ids, t) == note_ids

\* the notes that get the tag (lines 246-252)
notes_to_tag(tgs, note_ids, t) == { n \in note_ids : t \notin tgs[n] }

add_tag(tgs, ns, t) == [ n \in NoteIds |-> IF n \in ns THEN tgs[n] \cup {t} ELSE tgs[n] ]

\* apply_sibling_separation(group_name, card_ids): suspend, then spread
apply_sibling_separation(cds, tgs, tdy, group_name, sel) ==
    LET s == suspend_new_card_siblings(cds, tgs, group_name, sel)
        d == spread_review_card_due_dates(s.cards, s.tags, tdy, group_name, DEFAULT_MIN_GAP_DAYS)
    IN [ cards |-> d.cards, tags |-> s.tags, suspended |-> s.ret, spread |-> d.ret ]

\* only the number of cards is tested
refuses_mark_cards_only(tgs, sel, group_name, reply) ==
    \/ Cardinality(sel) < 2
    \/ (existing_groups(tgs, notes_of(sel)) # {} /\ group_name = NoGroup /\ reply = "cancel")

\* the refusals of mark_cards_as_siblings: fewer than two cards (line 177),
\* fewer than two notes (line 190), the existing-groups question cancelled (line 230)
refuses_mark(tgs, sel, group_name, reply) ==
    \/ Cardinality(sel) < 2
    \/ Cardinality(notes_of(sel)) < 2
    \/ (existing_groups(tgs, notes_of(sel)) # {} /\ group_name = NoGroup /\ reply = "cancel")

\* mark_cards_as_siblings returning False before any change
MarkRefused(sel, group_name, reply) ==
    /\ refuses_mark(tags, sel, group_name, reply)
    /\ op' = OpRec("mark_refused", NoGroup, whole_notes(sel), Cardinality(notes_of(sel)), 0, 0,
                   << >>, << >>)
    /\ UNCHANGED <<nid, tags, cards, revlog, remote, last_check, now, today, suspBy, replayed, edits>>

\* lines 242-266 for the resolved name: tag the notes that lack the tag, and
\* apply the separation only when a note was modified
mark_cards_as_siblings(cds, tgs, tdy, sel, final) ==
    LET t        == get_sibling_tag(final)
        modified == notes_to_tag(tgs, notes_of(sel), t)
        tags1    == add_tag(tgs, modified, t)
        sep      == apply_sibling_separation(cds, tags1, tdy, final, sel)
    IN IF modified # {}
       THEN [ tags |-> sep.tags, cards |-> sep.cards,
              ret |-> Cardinality(modified), suspended |-> sep.suspended ]
       ELSE [ tags |-> tgs, cards |-> cds, ret |-> 0, suspended |-> 0 ]

\* mark_cards_as_siblings(card_ids, group_name) resolving to the group `final`
Mark(sel, group_name, reply, final) ==
    /\ edits < MaxEdits
    /\ edits' = edits + 1
    /\ ~refuses_mark(tags, sel, group_name, reply)
    /\ final \in resolved_names(tags, notes_of(sel), group_name, reply)
    /\ LET m == mark_cards_as_siblings(cards, tags, today, sel, final)
       IN /\ tags' = m.tags
          /\ cards' = m.cards
          /\ suspBy' = SuspendedBy(m.cards, "seq")
          /\ op' = OpRec("mark", final, whole_notes(sel), Cardinality(notes_of(sel)), m.ret,
                         m.suspended, << >>, << >>)
    /\ UNCHANGED <<nid, revlog, remote, last_check, now, today, replayed>>

\* only the first sibling tag is removed
remove_first_sibling_tag(ts) ==
    LET sib == { t \in ts : startswith(t, TAG_PREFIX) }
    IN IF sib = {} THEN ts ELSE ts \ { CHOOSE t \in sib : TRUE }

\* every label of the engine is removed, markers included
remove_engine_tags(ts) ==
    ts \ { t \in ts : startswith(t, TAG_PREFIX) \/ startswith(t, SUSPENDED_TAG_PREFIX) }

\* for tag in sibling_tags: note.tags.remove(tag) (lines 288-291)
remove_sibling_tags(ts) == ts \ { t \in ts : startswith(t, TAG_PREFIX) }

\* remove_from_sibling_group(card_ids): every sibling:: tag of the notes goes
Unmark(sel) ==
    LET hit == { n \in notes_of(sel) : get_sibling_tags_for_note(tags, n) # {} } IN
    /\ edits < MaxEdits
    /\ edits' = edits + 1
    /\ tags' = [ n \in NoteIds |-> IF n \in hit THEN remove_sibling_tags(tags[n]) ELSE tags[n] ]
    /\ op' = OpRec("unmark", NoGroup, whole_notes(sel), 0, Cardinality(hit), 0, << >>,
                   SortedSeq(notes_of(sel)))
    /\ UNCHANGED <<nid, cards, revlog, remote, last_check, now, today, suspBy, replayed>>

\* add_to_existing_group returning False: no group exists (line 340) or the
\* dialog was dismissed (line 351)
AddRefused(sel, ok) ==
    /\ DOMAIN get_all_sibling_groups(tags) = {} \/ ~ok
    /\ op' = OpRec("add_refused", NoGroup, whole_notes(sel), Cardinality(notes_of(sel)), 0, 0,
                   << >>, << >>)
    /\ UNCHANGED <<nid, tags, cards, revlog, remote, last_check, now, today, suspBy, replayed, edits>>

\* add_to_existing_group(card_ids, browser) with the group chosen in the dialog
AddToExisting(sel, choice) ==
    /\ choice \in DOMAIN get_all_sibling_groups(tags)
    /\ edits < MaxEdits
    /\ edits' = edits + 1
    /\ LET t     == get_sibling_tag(choice)
           added == notes_to_tag(tags, notes_of(sel), t)
       IN /\ tags' = add_tag(tags, added, t)
          /\ op' = OpRec("add", choice, whole_notes(sel), 0, Cardinality(added), 0, << >>, << >>)
    /\ UNCHANGED <<nid, cards, revlog, remote, last_check, now, today, suspBy, replayed>>

\* ------------------------------------------------------------ host events
Eases == {"again", "good"}

\* the host scheduler's answer: the card leaves the new queue
answered(cd, tdy, ease) ==
    IF ease = "good" THEN [ queue |-> QUEUE_REV, type |-> TYPE_REV, due |-> tdy + 1 ]
    ELSE [ queue |-> QUEUE_LRN, type |-> IF cd.type = TYPE_NEW THEN TYPE_LRN ELSE cd.type,
           due |-> cd.due ]

\* the host can show the card for review: active, and due when it waits for a day
reviewable(cds, tdy, c) ==
    /\ cds[c].queue >= 0
    /\ cds[c].queue \in {QUEUE_REV, QUEUE_DAY_LRN} => cds[c].due <= tdy

\* item-answered: the host records the review, then on_reviewer_did_answer_card
Answer(c, ease) ==
    /\ now < MaxTime
    /\ Cardinality(revlog) < MaxReviews
    /\ reviewable(cards, today, c)
    /\ LET e      == [ id |-> now + 1, cid |-> c ]
           cards1 == [cards EXCEPT ![c] = answered(cards[c], today, ease)]
           b      == bury_custom_siblings(cards1, tags, today, c)
           r      == reschedule_review_siblings(b.cards, tags, today, c, DAYS_OFFSET)
       IN /\ revlog' = revlog \cup {e}
          /\ replayed' = replayed \cup {e}
          /\ cards' = r.cards
          /\ op' = OpRec("answer", NoGroup, FALSE, c, b.ret, r.ret, b.cmds, << >>)
    /\ now' = now + 1
    /\ UNCHANGED <<nid, tags, remote, last_check, today, suspBy, edits>>

\* enforce_sibling_separation(): spread every group with the default gap
RECURSIVE enforce_sibling_separation(_, _, _, _, _, _)
enforce_sibling_separation(cds, tgs, tdy, order, k, total) ==
    IF k > Len(order) THEN [ cards |-> cds, ret |-> total ]
    ELSE LET d == spread_review_card_due_dates(cds, tgs, tdy, order[k], DEFAULT_MIN_GAP_DAYS)
         IN enforce_sibling_separation(d.cards, tgs, tdy, order, k + 1, total + d.ret)

\* on_profile_loaded(): stamp an unset last check, release, enforce the separation
ProfileLoaded(order) ==
    /\ order \in Perms(DOMAIN get_all_sibling_groups(tags))
    /\ LET r == check_and_unsuspend_siblings(cards, tags, revlog, order)
           f == enforce_sibling_separation(r.cards, r.tags, today, order, 1, 0)
       IN /\ cards' = f.cards
          /\ tags' = r.tags
          /\ suspBy' = SuspendedBy(f.cards, "seq")
          /\ op' = OpRec("profileLoaded", NoGroup, FALSE, 0, r.ret, f.ret, << >>, r.log)
    /\ last_check' = IF last_check = 0 THEN now ELSE last_check
    /\ UNCHANGED <<nid, revlog, remote, now, today, replayed, edits>>

\* the user suspends a card in the host's browser
UserSuspend(c) ==
    /\ cards[c].queue # QUEUE_SUSPENDED
    /\ Cardinality({ x \in CardIds : suspBy[x] = "user" }) < MaxUserSuspended
    /\ cards' = [cards EXCEPT ![c].queue = QUEUE_SUSPENDED]
    /\ suspBy' = [suspBy EXCEPT ![c] = "user"]
    /\ op' = OpRec("userSuspend", NoGroup, FALSE, c, 0, 0, << >>, << >>)
    /\ UNCHANGED <<nid, tags, revlog, remote, last_check, now, today, replayed, edits>>

\* the queue a buried card returns to at the day rollover
unburied_queue(cd) ==
    IF cd.queue # QUEUE_BURIED THEN cd.queue
    ELSE IF cd.type = TYPE_NEW THEN QUEUE_NEW
    ELSE IF cd.type = TYPE_REV THEN QUEUE_REV
    ELSE QUEUE_LRN

\* the scheduling day advances; the host unburies
NextDay ==
    /\ today < Day0 + MaxDays
    /\ today' = today + 1
    /\ cards' = [ c \in CardIds |-> [cards[c] EXCEPT !.queue = unburied_queue(cards[c])] ]
    /\ op' = OpRec("nextDay", NoGroup, FALSE, 0, 0, 0, << >>, << >>)
    /\ UNCHANGED <<nid, tags, revlog, remote, last_check, now, suspBy, replayed, edits>>

\* ------------------------------------------------------- the engine (Spec)
NoOp == OpRec("init", NoGroup, FALSE, 0, 0, 0, << >>, << >>)

Init ==
    /\ nid \in Topologies
    /\ tags = [ n \in NoteIds |-> {} ]
    /\ cards = [ c \in CardIds |-> [ queue |-> QUEUE_NEW, type |-> TYPE_NEW, due |-> c ] ]
    /\ revlog = {}
    /\ remote = {}
    /\ last_check = 0
    /\ now = 1
    /\ today = Day0
    /\ suspBy = [ c \in CardIds |-> "none" ]
    /\ replayed = {}
    /\ edits = 0
    /\ op = NoOp

MarkActions ==
    \/ \E sel \in SUBSET CardIds, g \in Groups : Mark(sel, g, "yes", g)
    \/ \E sel \in SUBSET CardIds, reply \in {"yes", "no"}, final \in Groups :
          Mark(sel, NoGroup, reply, final)

Next ==
    \/ MarkActions
    \/ \E c \in CardIds : Unmark({c})
    \/ \E c \in CardIds, g \in Groups : AddToExisting({c}, g)
    \/ \E c \in CardIds : Answer(c, "good")
    \/ \E order \in UNION { Perms(S) : S \in SUBSET Groups } : ProfileLoaded(order)

Spec == Init /\ [][Next]_vars

\* ------------------------------ the sequencer driven at Record granularity
\* the selection that holds every card of the notes ns
cards_of(ns) == UNION { card_ids(n) : n \in ns }

\* mark over whole Records, by explicit name or by the dialog
MarkNotes ==
    \/ \E ns \in SUBSET NoteIds, g \in Groups : Mark(cards_of(ns), g, "yes", g)
    \/ \E ns \in SUBSET NoteIds, reply \in {"yes", "no"}, final \in Groups :
          Mark(cards_of(ns), NoGroup, reply, final)

NextSeq ==
    \/ MarkNotes
    \/ \E c \in CardIds : Answer(c, "good")
    \/ \E order \in UNION { Perms(S) : S \in SUBSET Groups } : ProfileLoaded(order)

SpecSeq == Init /\ [][NextSeq]_vars

\* ------------------------------------- the sequencer and a user who suspends
NextUser ==
    \/ NextSeq
    \/ \E c \in CardIds : UserSuspend(c)

SpecUser == Init /\ [][NextUser]_vars

\* ------------------------------------------- the spreader on review cards
\* label layouts of three Records: two overlapping groups, or one group of all
Layouts ==
    { <<{get_sibling_tag("g1"), get_sibling_tag("g2")},
        {get_sibling_tag("g1"), get_sibling_tag("g2")},
        {get_sibling_tag("g2")}>>,
      <<{get_sibling_tag("g1")}, {get_sibling_tag("g1")}, {get_sibling_tag("g1")}>> }

\* one note per card but the last two, which share a note
ThreeRecords == <<1, 2, 3, 3>>

NewCard == [ queue |-> QUEUE_NEW, type |-> TYPE_NEW, due |-> 0 ]
LrnCard == [ queue |-> QUEUE_LRN, type |-> TYPE_LRN, due |-> 0 ]
RevCard(d) == [ queue |-> QUEUE_REV, type |-> TYPE_REV, due |-> d ]
DayLrnCard(d) == [ queue |-> QUEUE_DAY_LRN, type |-> TYPE_LRN, due |-> d ]
BuriedRev(d) == [ queue |-> QUEUE_BURIED, type |-> TYPE_REV, due |-> d ]
SuspendedRev(d) == [ queue |-> QUEUE_SUSPENDED, type |-> TYPE_REV, due |-> d ]

SpreadStates == { NewCard, RevCard(Day0 - 1), RevCard(Day0), RevCard(Day0 + 1) }

InitRest ==
    /\ revlog = {}
    /\ remote = {}
    /\ last_check = 0
    /\ now = 1
    /\ today = Day0
    /\ suspBy = [ c \in CardIds |-> "none" ]
    /\ replayed = {}
    /\ edits = 0
    /\ op = NoOp

InitSpread ==
    /\ nid = ThreeRecords
    /\ tags \in Layouts
    /\ cards \in [ CardIds -> SpreadStates ]
    /\ InitRest

\* spread_review_card_due_dates(group_name, min_gap_days)
Spread(g, gap) ==
    /\ LET d == spread_review_card_due_dates(cards, tags, today, g, gap)
       IN /\ cards' = d.cards
          /\ op' = OpRec("spread", g, FALSE, gap, d.ret, 0, << >>, << >>)
    /\ UNCHANGED <<nid, tags, revlog, remote, last_check, now, today, suspBy, replayed, edits>>

NextSpread ==
    \/ \E g \in Groups, gap \in 1..MaxGap : Spread(g, gap)
    \/ NextDay

SpecSpread == InitSpread /\ [][NextSpread]_vars

\* ------------------------- the sequencer when one Record holds the two lowest cards
\* cards 1 and 2 on the first note, one card on each of the other two
TwoOnFirst == <<1, 1, 2, 3>>

InitOrder ==
    /\ nid = TwoOnFirst
    /\ tags = [ n \in NoteIds |-> {} ]
    /\ cards = [ c \in CardIds |-> [ queue |-> QUEUE_NEW, type |-> TYPE_NEW, due |-> c ] ]
    /\ InitRest

SpecOrder == InitOrder /\ [][NextSeq]_vars

\* ------------------------------------------------ the bury coordinator
BuryStates ==
    { NewCard, LrnCard, RevCard(Day0), RevCard(Day0 + 1), DayLrnCard(Day0), DayLrnCard(Day0 + 1),
      SuspendedRev(Day0), BuriedRev(Day0) }

InitBury ==
    /\ nid = ThreeRecords
    /\ tags \in Layouts
    /\ cards \in [ CardIds -> BuryStates ]
    /\ InitRest

NextBury == \E c \in CardIds, ease \in Eases : Answer(c, ease)

SpecBury == InitBury /\ [][NextBury]_vars

\* ------------------------------------------------------ the catch-up scan
Max(S) == CHOOSE x \in S : \A y \in S : x >= y

\* a card id the review history still names though the card is deleted
GONE_CARD == 0

\* "SELECT DISTINCT cid FROM revlog WHERE id > ?", last_check
reviews_since(rl, last) == { e.cid : e \in { x \in rl : x.id > last } }

\* the stamp taken from the newest entry found
check_time_of_last_entry(found_ids, t) == IF found_ids = {} THEN 0 ELSE Max(found_ids)

\* set_last_sync_check_time(int(time.time() * 1000)) on both paths
check_time(found_ids, t) == t

\* for cid in reviews: get_card, bury_custom_siblings; a failed lookup is passed over
RECURSIVE bury_each(_, _, _, _, _, _)
bury_each(cds, tgs, tdy, cids, k, total) ==
    IF k > Len(cids) THEN [ cards |-> cds, ret |-> total ]
    ELSE IF cids[k] \notin CardIds THEN bury_each(cds, tgs, tdy, cids, k + 1, total)
    ELSE LET b == bury_custom_siblings(cds, tgs, tdy, cids[k])
         IN bury_each(b.cards, tgs, tdy, cids, k + 1, total + b.ret)

\* a variant that writes the timestamp right after the history query
catch_up_events_stamp_first(cids, last, t) ==
    << <<"query", last>>, <<"stamp", t>> >> \o [ k \in 1..Len(cids) |-> <<"replay", cids[k]>> ]

\* the steps of one scan in program order: the history query with the timestamp it
\* read, one get_card/bury_custom_siblings attempt per row, set_last_sync_check_time
catch_up_events(cids, last, t) ==
    << <<"query", last>> >> \o [ k \in 1..Len(cids) |-> <<"replay", cids[k]>> ]
        \o << <<"stamp", t>> >>

\* process_reviews_since_last_check() run at clock value t
process_reviews_since_last_check(cds, tgs, tdy, rl, last, t) ==
    LET reviews == reviews_since(rl, last)
        b       == bury_each(cds, tgs, tdy, SortedSeq(reviews), 1, 0)
        stamp   == check_time({ e.id : e \in { x \in rl : x.id > last } }, t)
    IN [ cards  |-> b.cards,
         ret    |-> b.ret,
         found  |-> reviews,
         looked |-> reviews \cap CardIds,
         stamp  |-> stamp,
         events |-> catch_up_events(SortedSeq(reviews), last, stamp) ]

\* a review on another device: its history entry waits to be replicated
RemoteReview(c) ==
    /\ now < MaxTime
    /\ Cardinality(remote) < MaxRemote
    /\ remote' = remote \cup { [ id |-> now + 1, cid |-> c ] }
    /\ now' = now + 1
    /\ op' = OpRec("remoteReview", NoGroup, FALSE, c, 0, 0, << >>, << >>)
    /\ UNCHANGED <<nid, tags, cards, revlog, last_check, today, suspBy, replayed, edits>>

\* the card states the replication brings: the other device's scheduler answered
synced(cds, arrivals) ==
    [ c \in CardIds |->
        IF \E e \in arrivals : e.cid = c THEN answered(cds[c], today, "good") ELSE cds[c] ]

\* a sync replicates `arrivals`, then on_sync_did_finish
Sync(arrivals) ==
    /\ now < MaxTime
    /\ arrivals \subseteq remote
    /\ LET rl == revlog \cup arrivals
           p  == process_reviews_since_last_check(synced(cards, arrivals), tags, today,
                                                   rl, last_check, now + 1)
       IN /\ revlog' = rl
          /\ remote' = remote \ arrivals
          /\ cards' = p.cards
          /\ last_check' = p.stamp
          /\ replayed' = replayed \cup { e \in rl : e.id > last_check /\ e.cid \in p.looked }
          /\ op' = OpRec("sync", NoGroup, FALSE, Cardinality(p.found), p.ret,
                         Cardinality(p.looked), << >>, p.events)
    /\ now' = now + 1
    /\ UNCHANGED <<nid, tags, today, suspBy, edits>>

InitCatch ==
    /\ nid = ThreeRecords
    /\ tags \in Layouts
    /\ cards = [ c \in CardIds |-> NewCard ]
    /\ InitRest

NextCatch ==
    \/ \E c \in CardIds : Answer(c, "good")
    \/ \E c \in CardIds \cup {GONE_CARD} : RemoteReview(c)
    \/ \E arrivals \in SUBSET remote : Sync(arrivals)
    \/ \E order \in UNION { Perms(S) : S \in SUBSET Groups } : ProfileLoaded(order)

SpecCatch == InitCatch /\ [][NextCatch]_vars

\* -------------------------------------------------------- the group index
\* the names of a set listed g1 before g2
SortedSeqOfNames(S) == SelectSeq(<<"g1", "g2">>, LAMBDA g : g \in S)

Reverse(sq) == [ i \in 1..Len(sq) |-> sq[Len(sq) + 1 - i] ]

\* the labels a Record can carry here
Labels == { get_sibling_tag("g1"), get_sibling_tag("g2"), suspended_tag("g1") }

\* the label list of note n: a fixed order, reversed for the notes in rev
label_list(n, rev) ==
    LET p == CHOOSE x \in Perms(tags[n]) : TRUE
    IN IF n \in rev THEN Reverse(p) ELSE p

InitIndex ==
    /\ nid = ThreeRecords
    /\ tags \in [ NoteIds -> SUBSET Labels ]
    /\ cards = [ c \in CardIds |-> NewCard ]
    /\ InitRest

\* get_all_sibling_groups() with the host returning the notes in note_order
AllGroups(note_order, rev) ==
    /\ note_order \in Perms({ n \in NoteIds : get_sibling_tags_for_note(tags, n) # {} })
    /\ LET d == groups_dict(note_order, [ n \in NoteIds |-> label_list(n, rev) ])
           keys == SortedSeqOfNames(DOMAIN d)
       IN op' = OpRec("allGroups", NoGroup, FALSE, 0, Cardinality(DOMAIN d), 0,
                      [ i \in 1..Len(keys) |-> <<keys[i], d[keys[i]]>> ], note_order)
    /\ UNCHANGED <<nid, tags, cards, revlog, remote, last_check, now, today, suspBy, replayed, edits>>

NextIndex ==
    \E note_order \in UNION { Perms(S) : S \in SUBSET NoteIds }, rev \in SUBSET NoteIds :
       AllGroups(note_order, rev)

SpecIndex == InitIndex /\ [][NextIndex]_vars

\* note.tags is a list: the label list of note n, its first label held twice for the notes in twice
repeated_label_list(n, twice) ==
    LET p == label_list(n, {})
    IN IF n \in twice /\ p # << >> THEN << p[1] >> \o p ELSE p

\* get_all_sibling_groups() when label lists can hold a label twice
AllGroupsRepeated(note_order, twice) ==
    /\ note_order \in Perms({ n \in NoteIds : get_sibling_tags_for_note(tags, n) # {} })
    /\ LET d == groups_dict(note_order, [ n \in NoteIds |-> repeated_label_list(n, twice) ])
           keys == SortedSeqOfNames(DOMAIN d)
       IN op' = OpRec("allGroups", NoGroup, FALSE, Cardinality(twice), Cardinality(DOMAIN d), 0,
                      [ i \in 1..Len(keys) |-> <<keys[i], d[keys[i]]>> ], note_order)
    /\ UNCHANGED <<nid, tags, cards, revlog, remote, last_check, now, today, suspBy, replayed, edits>>

NextRepeated ==
    \E note_order \in UNION { Perms(S) : S \in SUBSET NoteIds }, twice \in SUBSET NoteIds :
       AllGroupsRepeated(note_order, twice)

SpecRepeated == InitIndex /\ [][NextRepeated]_vars

\* ------------------------------------------------------ group-name codec
\* names are sequences of one-character strings
Upper == { "A", "B" }
Letters == Upper \cup { "a", "n", "t", "o", "m", "y", "b", "e", "s" }

\* \w of the regular expressions: letters, digits, underscore
is_word(c) == c \in Letters \/ c = "_"

\* str.lower() on one character
lower(c) == IF c = "A" THEN "a" ELSE IF c = "B" THEN "b" ELSE c

\* re.sub(r'[^\w\-:]', '_', name)
replace_special(name) ==
    [ i \in 1..Len(name) |->
        IF is_word(name[i]) \/ name[i] = "-" \/ name[i] = ":" THEN name[i] ELSE "_" ]

\* re.sub(c+, rep, name): every maximal run of the character c becomes rep
RECURSIVE sub_runs(_, _, _, _)
sub_runs(name, c, rep, k) ==
    IF k > Len(name) THEN << >>
    ELSE IF name[k] # c THEN << name[k] >> \o sub_runs(name, c, rep, k + 1)
    ELSE IF k > 1 /\ name[k - 1] = c THEN sub_runs(name, c, rep, k + 1)
    ELSE rep \o sub_runs(name, c, rep, k + 1)

\* re.sub(r':+', '::', sanitized)
normalize_colons(name) == sub_runs(name, ":", <<":", ":">>, 1)

\* re.sub(r'_+', '_', sanitized)
collapse_underscores(name) == sub_runs(name, "_", <<"_">>, 1)

RECURSIVE lstrip(_, _)
lstrip(name, cs) ==
    IF name # << >> /\ name[1] \in cs THEN lstrip(Tail(name), cs) ELSE name

RECURSIVE rstrip(_, _)
rstrip(name, cs) ==
    IF name # << >> /\ name[Len(name)] \in cs
    THEN rstrip(SubSeq(name, 1, Len(name) - 1), cs) ELSE name

\* only the underscores are stripped
strip_underscores_only(name) == rstrip(lstrip(name, {"_"}), {"_"})

\* sanitized.strip('_:')
strip_ends(name) == rstrip(lstrip(name, {"_", ":"}), {"_", ":"})

\* sanitize_group_name(name): none stands for the None it returns
sanitize_group_name(name) ==
    LET sanitized == strip_ends(collapse_underscores(normalize_colons(replace_special(name))))
    IN IF sanitized = << >> THEN [ none |-> TRUE, name |-> << >> ]
       ELSE [ none |-> FALSE, name |-> [ i \in 1..Len(sanitized) |-> lower(sanitized[i]) ] ]

\* what generate_group_id() returns, written with characters no name holds
GENERATED_ID == << "#" >>

\* lines 236-238: final_group_name for an explicit name
final_group_name(name) ==
    IF sanitize_group_name(name).none THEN GENERATED_ID ELSE sanitize_group_name(name).name

MaxLen == 5
Alphabet == { "A", "b", ":", "_", " ", "-" }
AnatomyBones == << "A", "n", "a", "t", "o", "m", "y", " ", "B", "o", "n", "e", "s", "!" >>
RawNames == UNION { [ 1..n -> Alphabet ] : n \in 0..MaxLen } \cup { AnatomyBones }

\* the explicit name handed to mark_cards_as_siblings waits in op.cmds
InitName ==
    /\ nid = ThreeRecords
    /\ tags = [ n \in NoteIds |-> {} ]
    /\ cards = [ c \in CardIds |-> NewCard ]
    /\ revlog = {}
    /\ remote = {}
    /\ last_check = 0
    /\ now = 1
    /\ today = Day0
    /\ suspBy = [ c \in CardIds |-> "none" ]
    /\ replayed = {}
    /\ edits = 0
    /\ \E raw \in RawNames : op = OpRec("rawName", NoGroup, FALSE, 0, 0, 0, raw, << >>)

\* the name resolution of mark_cards_as_siblings (lines 236-238) for that name
ResolveName ==
    /\ op.name = "rawName"
    /\ op' = OpRec("resolveName", NoGroup, ~sanitize_group_name(op.cmds).none, 0,
                   Len(sanitize_group_name(op.cmds).name), 0, op.cmds, final_group_name(op.cmds))
    /\ UNCHANGED <<nid, tags, cards, revlog, remote, last_check, now, today, suspBy, replayed, edits>>

NextName == ResolveName

SpecName == InitName /\ [][NextName]_vars

\* ------------------------------------- the membership manager on its own
NextMember ==
    \/ \E sel \in SUBSET CardIds, g \in Groups : Mark(sel, g, "yes", g)
    \/ \E sel \in SUBSET CardIds, reply \in {"yes", "no"}, final \in Groups :
          Mark(sel, NoGroup, reply, final)
    \/ \E sel \in SUBSET CardIds, g \in Groups \cup {NoGroup} : MarkRefused(sel, g, "cancel")
    \/ \E sel \in SUBSET CardIds, g \in Groups : AddToExisting(sel, g)
    \/ \E sel \in SUBSET CardIds, ok \in BOOLEAN : AddRefused(sel, ok)
    \/ \E sel \in SUBSET CardIds : Unmark(sel)

\* no group yet, or the groups of a layout: labels also arrive by sync
InitMember ==
    /\ nid \in Topologies
    /\ tags \in { [ n \in NoteIds |-> {} ] } \cup Layouts
    /\ cards = [ c \in CardIds |-> NewCard ]
    /\ InitRest

SpecMember == InitMember /\ [][NextMember]_vars

\* --------------------------------------- the spread scan when an update fails
\* the loop of lines 641-648 over review_cards_due[1:], update_card raising for
\* the cards in bad: there is no handler in the loop, so the exception ends
\* spread_review_card_due_dates and reaches the caller
RECURSIVE spread_loop(_, _, _, _, _, _, _)
spread_loop(cds, sorted, i, tdy, min_gap_days, bad, rescheduled) ==
    IF i + 1 > Len(sorted)
    THEN [ cards |-> cds, ret |-> rescheduled, raised |-> FALSE, seen |-> i - 1 ]
    ELSE LET c == sorted[i + 1] IN
         IF cds[c].due = new_due(tdy, i, min_gap_days)
         THEN spread_loop(cds, sorted, i + 1, tdy, min_gap_days, bad, rescheduled)
         ELSE IF c \in bad
              THEN [ cards |-> cds, ret |-> 0, raised |-> TRUE, seen |-> i ]
              ELSE spread_loop([cds EXCEPT ![c].due = new_due(tdy, i, min_gap_days)],
                               sorted, i + 1, tdy, min_gap_days, bad, rescheduled + 1)

spread_with_failures(cds, tgs, tdy, group_name, min_gap_days, bad) ==
    LET due_set == review_cards_due(cds, tgs, tdy, group_name) IN
    IF Cardinality(due_set) < 2
    THEN [ cards |-> cds, ret |-> 0, raised |-> FALSE, seen |-> 0 ]
    ELSE spread_loop(cds, sort_by_due(cds, due_set), 1, tdy, min_gap_days, bad, 0)

\* spread_review_card_due_dates(group_name) while update_card fails for bad
SpreadWithFailures(g, bad) ==
    /\ LET d == spread_with_failures(cards, tags, today, g, DEFAULT_MIN_GAP_DAYS, bad)
       IN /\ cards' = d.cards
          /\ op' = OpRec("spreadWithFailures", g, d.raised, d.seen, d.ret, 0,
                         << SortedSeq(bad) >>, << >>)
    /\ UNCHANGED <<nid, tags, revlog, remote, last_check, now, today, suspBy, replayed, edits>>

NextFault ==
    \E g \in Groups, bad \in { b \in SUBSET CardIds : Cardinality(b) <= 1 } :
       SpreadWithFailures(g, bad)

SpecFault == InitSpread /\ [][NextFault]_vars

\* ------------------------------------------- every handler that writes labels or cards
InitFrame ==
    /\ nid = ThreeRecords
    /\ tags = [ n \in NoteIds |-> {} ]
    /\ cards = [ c \in CardIds |-> NewCard ]
    /\ InitRest

NextFrame ==
    \/ \E ns \in SUBSET NoteIds : Mark(cards_of(ns), "g1", "yes", "g1")
    \/ \E c \in CardIds : Unmark({c})
    \/ \E c \in CardIds : AddToExisting({c}, "g1")
    \/ \E c \in CardIds : Answer(c, "good")
    \/ Spread("g1", DEFAULT_MIN_GAP_DAYS)
    \/ Sync({})
    \/ \E order \in UNION { Perms(S) : S \in SUBSET Groups } : ProfileLoaded(order)

SpecFrame == InitFrame /\ [][NextFrame]_vars

\* ------------------------------------- the sequencer with every open card reviewed
\* the first review of a card: the host records it, then on_reviewer_did_answer_card
FirstAnswer(c) ==
    /\ has_reviews(revlog, c) = 0
    /\ reviewable(cards, today, c)
    /\ LET e      == [ id |-> now + 1, cid |-> c ]
           cards1 == [cards EXCEPT ![c] = answered(cards[c], today, "good")]
           b      == bury_custom_siblings(cards1, tags, today, c)
           r      == reschedule_review_siblings(b.cards, tags, today, c, DAYS_OFFSET)
       IN /\ revlog' = revlog \cup {e}
          /\ replayed' = replayed \cup {e}
          /\ cards' = r.cards
          /\ op' = OpRec("answer", NoGroup, FALSE, c, b.ret, r.ret, b.cmds, << >>)
    /\ now' = now + 1
    /\ UNCHANGED <<nid, tags, remote, last_check, today, suspBy, edits>>

Activation == \E order \in UNION { Perms(S) : S \in SUBSET Groups } : ProfileLoaded(order)

Reviewing == \E c \in CardIds : FirstAnswer(c)

NextLive ==
    \/ \E ns \in SUBSET NoteIds : Mark(cards_of(ns), "g1", "yes", "g1")
    \/ Reviewing
    \/ Activation

\* a card the host can show is reviewed in the end
SpecLive == InitFrame /\ [][NextLive]_vars /\ WF_vars(Reviewing)

\* =========================================================== the claims
\* the cards of the notes that carry the label of group g
members(tgs, g) == UNION { card_ids(n) : n \in find_notes(tgs, get_sibling_tag(g)) }

\* eligible as a new item: phase new and active
eligible_new(cds, c) == cds[c].queue = QUEUE_NEW /\ cds[c].type = TYPE_NEW

\* the members of g that a step took out of suspension
released_in(g) ==
    { c \in members(tags, g) : cards[c].queue = QUEUE_SUSPENDED /\ cards'[c].queue # QUEUE_SUSPENDED }

\* g has an active new member without a recorded review
open_member_unreviewed(g) ==
    \E c \in members(tags, g) : eligible_new(cards, c) /\ has_reviews(revlog, c) = 0

\* C1: a releaseNext pass (profile activation) makes at most one more member of each group active,
\* exactly one when the group's open members all have a recorded review and a
\* member waits suspended by the Sequencer, and none while an active new member
\* of the group has no recorded review.
C1_ReleaseOneAtATime ==
    [][ op'.name = "profileLoaded" =>
          \A g \in DOMAIN get_all_sibling_groups(tags) :
             /\ Cardinality(released_in(g)) <= 1
             /\ open_member_unreviewed(g) => released_in(g) = {}
             /\ ( /\ ~open_member_unreviewed(g)
                  /\ \E c \in members(tags, g) :
                        cards[c].queue = QUEUE_SUSPENDED /\ suspBy[c] = "seq" )
                => Cardinality(released_in(g)) = 1 ]_vars

\* C2: when a mark over whole Records changed the group and ran the separation,
\* of the group's members that were new and active before it exactly one is
\* active afterwards, and every other one is suspended with the group's marker
\* on its Record.
C2_OneActiveAfterMark ==
    [][ (op'.name = "mark" /\ op'.full /\ op'.ret > 0) =>
          LET fresh == { c \in members(tags', op'.g) : eligible_new(cards, c) } IN
          fresh # {} =>
             /\ Cardinality({ c \in fresh : cards'[c].queue = QUEUE_NEW }) = 1
             /\ \A c \in fresh :
                   cards'[c].queue # QUEUE_NEW =>
                      /\ cards'[c].queue = QUEUE_SUSPENDED
                      /\ suspended_tag(op'.g) \in tags'[nid[c]] ]_vars

\* C3: every group has at most one member that is eligible as a new item.
C3_AtMostOneEligible ==
    \A g \in DOMAIN get_all_sibling_groups(tags) :
       Cardinality({ c \in members(tags, g) : eligible_new(cards, c) }) <= 1

\* C4: a releaseNext pass (profile activation) leaves every card the user suspended suspended.
C4_UserSuspendedStays ==
    [][ op'.name = "profileLoaded" =>
          \A c \in CardIds : suspBy[c] = "user" => cards'[c].queue = QUEUE_SUSPENDED ]_vars

\* ---- C5: two Records of two new Items each, marked as one group
TwoByTwo(A, B) ==
    A # B /\ Cardinality(card_ids(A)) = 2 /\ Cardinality(card_ids(B)) = 2

\* nothing is grouped yet and the four Items are new and active
fresh_pair(A, B) ==
    /\ TwoByTwo(A, B)
    /\ \A n \in NoteIds : tags[n] = {}
    /\ \A c \in cards_of({A, B}) : eligible_new(cards, c)

\* the step marks exactly A and B as a group
marks_pair(A, B) ==
    /\ op'.name = "mark"
    /\ find_notes(tags', get_sibling_tag(op'.g)) = {A, B}

\* the group of A and B is the only one and g is its name
only_group(A, B, g) ==
    /\ DOMAIN get_all_sibling_groups(tags) = {g}
    /\ find_notes(tags, get_sibling_tag(g)) = {A, B}

\* C5 as stated: A's Items stay active, B's are suspended and B is marked; after
\* a review on one of A's Items one releaseNext pass (profile activation) unsuspends exactly one of
\* B's Items and removes B's marker.
C5_RecordGranularity ==
    [][ \A A, B \in NoteIds :
          /\ (fresh_pair(A, B) /\ marks_pair(A, B)) =>
                \E X, Y \in {A, B} :
                   /\ X # Y
                   /\ \A c \in card_ids(X) : cards'[c].queue = QUEUE_NEW
                   /\ \A c \in card_ids(Y) : cards'[c].queue = QUEUE_SUSPENDED
                   /\ suspended_tag(op'.g) \in tags'[Y]
          /\ \A g \in Groups :
                ( /\ TwoByTwo(A, B) /\ only_group(A, B, g)
                  /\ \A c \in card_ids(A) : cards[c].queue # QUEUE_SUSPENDED
                  /\ \E c \in card_ids(A) : has_reviews(revlog, c) > 0
                  /\ \A c \in card_ids(B) : cards[c].queue = QUEUE_SUSPENDED
                  /\ suspended_tag(g) \in tags[B]
                  /\ op'.name = "profileLoaded" )
                => /\ Cardinality({ c \in card_ids(B) : cards'[c].queue = QUEUE_NEW }) = 1
                   /\ suspended_tag(g) \notin tags'[B] ]_vars

\* the four Items in id order: the one that stays open, and the rest
first_item(A, B) == Min(cards_of({A, B}))

next_item(A, B) == Min(cards_of({A, B}) \ { first_item(A, B) })

\* C5 as amended: with all four Items selected only the lowest-id Item stays
\* active, the other three are suspended and both Records are marked; after a
\* review on the active Item one releaseNext pass (profile activation) unsuspends exactly the
\* lowest-id suspended Item and strips the markers of its Record.
C5_ItemGranularity ==
    [][ \A A, B \in NoteIds :
          /\ (fresh_pair(A, B) /\ marks_pair(A, B) /\ op'.full) =>
                /\ cards'[first_item(A, B)].queue = QUEUE_NEW
                /\ \A c \in cards_of({A, B}) \ { first_item(A, B) } :
                      cards'[c].queue = QUEUE_SUSPENDED
                /\ suspended_tag(op'.g) \in tags'[A] \cap tags'[B]
          /\ \A g \in Groups :
                ( /\ TwoByTwo(A, B) /\ only_group(A, B, g)
                  /\ cards[first_item(A, B)].queue # QUEUE_SUSPENDED
                  /\ has_reviews(revlog, first_item(A, B)) > 0
                  /\ \A c \in cards_of({A, B}) \ { first_item(A, B) } :
                        cards[c].queue = QUEUE_SUSPENDED /\ cards[c].type = TYPE_NEW
                  /\ suspended_tag(g) \in tags[A] \cap tags[B]
                  /\ op'.name = "profileLoaded" )
                => /\ op'.ret = 1
                   /\ cards'[next_item(A, B)].queue = QUEUE_NEW
                   /\ \A c \in cards_of({A, B}) \ { first_item(A, B), next_item(A, B) } :
                         cards'[c].queue = QUEUE_SUSPENDED
                   /\ strip_suspended_tags(tags'[nid[next_item(A, B)]])
                         = tags'[nid[next_item(A, B)]] ]_vars

\* the scenario ran: marked, the open Item reviewed, one release pass done
C5_Witness ==
    \E A, B \in NoteIds, g \in Groups :
       /\ TwoByTwo(A, B) /\ only_group(A, B, g)
       /\ op.name = "profileLoaded" /\ op.log = << <<g, next_item(A, B)>> >>
       /\ has_reviews(revlog, first_item(A, B)) > 0
       /\ eligible_new(cards, next_item(A, B))
       /\ \A c \in cards_of({A, B}) \ { first_item(A, B), next_item(A, B) } :
             cards[c].queue = QUEUE_SUSPENDED /\ suspBy[c] = "seq"

\* ---- C6, C7: the spreader
\* the members of g the spreader works on, taken before the step
due_members(g) == review_cards_due(cards, tags, today, g)

\* the number of items of M that come before c in (due, identifier) order
rank(M, c) ==
    Cardinality({ x \in M : x # c /\ ( cards[x].due < cards[c].due
                                       \/ (cards[x].due = cards[c].due /\ x < c) ) })

\* C6: after spread(group) with the default gap no two of the review members that
\* were due by today share a due value, and the one that was earliest in
\* (due, identifier) order keeps its due value.
C6_SpreadSeparates ==
    [][ (op'.name = "spread" /\ op'.arg = DEFAULT_MIN_GAP_DAYS) =>
          LET M == due_members(op'.g) IN
          /\ \A a, b \in M : a # b => cards'[a].due # cards'[b].due
          /\ \A c \in M : rank(M, c) = 0 => cards'[c].due = cards[c].due ]_vars

\* a default-gap spread that moved two members
C6_Witness ==
    /\ op.name = "spread"
    /\ op.arg = DEFAULT_MIN_GAP_DAYS
    /\ op.ret >= 2

\* the rule of spread(group, minGap): the first in (due, identifier) order is
\* left alone, position i of the remainder gets today + i*minGap, nothing else moves
spread_rule ==
    op'.name = "spread" =>
       LET M == due_members(op'.g) IN
       /\ \A c \in M :
             cards'[c].due = IF rank(M, c) = 0 THEN cards[c].due
                             ELSE today + rank(M, c) * op'.arg
       /\ \A c \in CardIds \ M : cards'[c] = cards[c]
       /\ \A c \in CardIds : cards'[c].queue = cards[c].queue

\* three members all due on day 100, spread with gap 1
three_due_100(M) ==
    /\ Cardinality(M) = 3
    /\ \A c \in M : cards[c].due = 100
    /\ op'.name = "spread"
    /\ op'.arg = 1

\* the dues become 100, 101, 102 in ascending identifier order
dues_100_101_102(M) ==
    \A c \in M : cards'[c].due = 100 + rank(M, c)

\* C7 as stated: the rule, and three Items all due on day 100 spread with gap 1
\* end with the dues 100, 101, 102 in ascending identifier order.
C7_SpreadScenario ==
    [][ /\ spread_rule
        /\ \A g \in Groups :
              three_due_100(due_members(g)) /\ op'.g = g => dues_100_101_102(due_members(g)) ]_vars

\* C7 as amended: the rule, and three Items all due on day 100 spread with gap 1
\* on day 100 end with the dues 100, 101, 102 in ascending identifier order.
C7_SpreadRule ==
    [][ /\ spread_rule
        /\ \A g \in Groups :
              three_due_100(due_members(g)) /\ op'.g = g /\ today = 100
                 => dues_100_101_102(due_members(g)) ]_vars

\* after a gap-1 spread on day 100 that moved two members: the one left due is
\* due on day 100, so all three were, and they now hold 100, 101, 102
C7_Witness ==
    /\ op.name = "spread"
    /\ op.arg = 1
    /\ op.ret = 2
    /\ today = 100
    /\ \E a, b, c \in members(tags, op.g) :
          /\ a < b /\ b < c
          /\ cards[a] = RevCard(100) /\ cards[b] = RevCard(101) /\ cards[c] = RevCard(102)
          /\ review_cards_due(cards, tags, today, op.g) = {a}

\* ---- C8: the bury coordinator
\* the sibling tags of the answered card's note through which x is a sibling
shared_tags(c, x) ==
    { t \in get_sibling_tags_for_note(tags, nid[c]) : nid[x] \in find_notes(tags, t) }

\* C8: one answer issues at most one bury command, the command names no card
\* twice, and the count returned is the number of distinct cards in it.
C8_BuryUnion ==
    op.name = "answer" =>
       /\ Len(op.cmds) <= 1
       /\ \A k \in 1..Len(op.cmds) :
             /\ \A i, j \in 1..Len(op.cmds[k]) : i # j => op.cmds[k][i] # op.cmds[k][j]
             /\ op.ret = Cardinality(Range(op.cmds[k]))
       /\ op.cmds = << >> => op.ret = 0

\* an answer buried a card that is a sibling through two groups
C8_Witness ==
    /\ op.name = "answer"
    /\ Len(op.cmds) = 1
    /\ \E x \in Range(op.cmds[1]) :
          /\ Cardinality(shared_tags(op.arg, x)) >= 2
          /\ cards[x].queue = QUEUE_BURIED

\* ---- C9, C10: the catch-up scan
\* C9: the last-check timestamp never decreases, whatever the step.
C9_LastCheckMonotone ==
    [][ last_check' >= last_check ]_vars

\* a catch-up that found no entry, or only entries whose card is gone, ran
\* after the timestamp was already set, and stamped the clock
C9_Witness ==
    /\ op.name = "sync"
    /\ op.ret2 = 0
    /\ last_check = now
    /\ \E e \in revlog : e.id < now

\* C10: after a sync every replicated or local history entry of an existing
\* card has had the bury coordinator run for it.
C10_NoEntrySkipped ==
    op.name = "sync" => \A e \in revlog : e.cid \in CardIds => e \in replayed

\* ---- C11: mark twice with the same Records and the same explicit name
\* the selections of two or more whole Records
record_selections == { cards_of(ns) : ns \in { x \in SUBSET NoteIds : Cardinality(x) >= 2 } }

first_mark(sel, g) == mark_cards_as_siblings(cards, tags, today, sel, g)

second_mark(sel, g) ==
    mark_cards_as_siblings(first_mark(sel, g).cards, first_mark(sel, g).tags, today, sel, g)

\* the second call modifies nothing and leaves labels and cards as the first did
second_is_noop(sel, g) ==
    /\ second_mark(sel, g).ret = 0
    /\ second_mark(sel, g).tags = first_mark(sel, g).tags
    /\ second_mark(sel, g).cards = first_mark(sel, g).cards

returned_members(g) == UNION { Range(op.cmds[i][2]) : i \in { k \in 1..Len(op.cmds) : op.cmds[k][1] = g } }

\* C12: whatever order the host returned the Records in and whatever the order
\* of the labels on each Record, allGroups() returns the mapping fixed by the
\* label state: the names in use, each with the Records that carry its label.
C12_AllGroupsOrderFree ==
    op.name = "allGroups" =>
       /\ { op.cmds[i][1] : i \in 1..Len(op.cmds) } = DOMAIN get_all_sibling_groups(tags)
       /\ \A g \in DOMAIN get_all_sibling_groups(tags) :
             returned_members(g) = find_notes(tags, get_sibling_tag(g))

\* a scan that did not follow id order, over two groups sharing a Record
C12_Witness ==
    /\ op.name = "allGroups"
    /\ op.ret = 2
    /\ Len(op.log) = 3 /\ op.log[1] > op.log[2]
    /\ \E n \in NoteIds : Cardinality(get_sibling_tags_for_note(tags, n)) = 2
    /\ find_notes(tags, get_sibling_tag("g1")) # find_notes(tags, get_sibling_tag("g2"))

\* ---- C13: sanitize(rawName)
\* the characters of a name that are neither '_' nor ':'
kept_chars(name) == SelectSeq(name, LAMBDA c : c # "_" /\ c # ":")

\* the input's letters, digits and '-' in order, lower-cased
kept_input(raw) ==
    LET k == SelectSeq(raw, LAMBDA c : (is_word(c) /\ c # "_") \/ c = "-")
    IN [ i \in 1..Len(k) |-> lower(k[i]) ]

\* the name holds a run of at least n characters c
has_run(name, c, n) ==
    \E i \in 1..Len(name) : i + n - 1 <= Len(name) /\ \A j \in i..(i + n - 1) : name[j] = c

\* the name holds a ':' that stands alone
has_single_colon(name) ==
    \E i \in 1..Len(name) :
       /\ name[i] = ":"
       /\ (i = 1 \/ name[i - 1] # ":")
       /\ (i = Len(name) \/ name[i + 1] # ":")

\* the name was returned by sanitize for the input raw, as the claim describes it
well_formed(raw, name) ==
    /\ name # << >>
    /\ \A i \in 1..Len(name) :
          /\ name[i] \notin Upper
          /\ (is_word(name[i]) \/ name[i] = "-" \/ name[i] = ":")
    /\ ~has_run(name, "_", 2)
    /\ ~has_run(name, ":", 3)
    /\ ~has_single_colon(raw) => ~has_single_colon(name)
    /\ name[1] \notin {"_", ":"} /\ name[Len(name)] \notin {"_", ":"}
    /\ kept_chars(name) = kept_input(raw)

\* C13: a returned name is lower-case, made of letters, digits, '_', '-', ':',
\* without repeated '_', with '::' for every longer run of ':', without '_' or
\* ':' at its ends, and holds the input's letters in order; nothing is returned
\* exactly when no character is left; "Anatomy Bones!" resolves to anatomy_bones.
C13_Sanitize ==
    op.name = "resolveName" =>
       /\ op.full => well_formed(op.cmds, op.log)
       /\ ~op.full => (kept_input(op.cmds) = << >> /\ op.log = GENERATED_ID)
       /\ op.cmds = AnatomyBones =>
             op.log = << "a", "n", "a", "t", "o", "m", "y", "_", "b", "o", "n", "e", "s" >>

\* a name with an upper-case letter, a longer run of ':', other characters in
\* the middle and a ':' at the end was sanitized
C13_Witness ==
    /\ op.name = "resolveName"
    /\ op.full
    /\ \E i \in 1..Len(op.cmds) : op.cmds[i] \in Upper
    /\ has_run(op.cmds, ":", 2)
    /\ op.cmds[Len(op.cmds)] = ":"
    /\ op.log = << "a", ":", ":", "b" >>

\* ---- C14: refusals
\* C14: a mark over Items of fewer than two distinct Records is refused, an
\* add-to-existing-group without any group is refused, and a refusal (the
\* aborted existing-group choice included) changes no label and no Item state.
C14_RefusalsChangeNothing ==
    [][ /\ (op'.name \in {"mark", "mark_refused"} /\ op'.arg < 2) => op'.name = "mark_refused"
        /\ (op'.name \in {"add", "add_refused"} /\ DOMAIN get_all_sibling_groups(tags) = {})
              => op'.name = "add_refused"
        /\ op'.name \in {"mark_refused", "add_refused"} => (tags' = tags /\ cards' = cards) ]_vars

\* a mark over two Items of one Record was refused while groups exist
C14_Witness ==
    /\ op.name = "mark_refused"
    /\ op.arg = 1
    /\ op.full
    /\ DOMAIN get_all_sibling_groups(tags) # {}

\* ---- C15: unmark
\* C15: unmark takes every sibling:: label, of every group, off each involved
\* Record and nothing else; the labels of the other Records are unchanged.
C15_UnmarkRemovesAll ==
    [][ op'.name = "unmark" =>
          \A n \in NoteIds :
             IF n \in Range(op'.log)
             THEN /\ get_sibling_tags_for_note(tags', n) = {}
                  /\ \A g \in DOMAIN get_all_sibling_groups(tags') :
                        n \notin get_all_sibling_groups(tags')[g]
                  /\ tags'[n] = tags[n] \ get_sibling_tags_for_note(tags, n)
             ELSE tags'[n] = tags[n] ]_vars

\* an unmark took two Records out while a third keeps two groups
C15_Witness ==
    /\ op.name = "unmark"
    /\ op.ret = 2
    /\ \E n \in NoteIds \ Range(op.log) : Cardinality(get_sibling_tags_for_note(tags, n)) = 2
    /\ \E n \in Range(op.log) : tags[n] # {}

\* ---- C16: the marker of the scanned group
\* C16: the first release of a releaseNext pass (profile activation), made while
\* scanning group g, is of a card whose Record carries the marker of g, and when
\* it is the only release the Record loses the marker of g and no other label.
C16_MarkerOfScannedGroup ==
    [][ (op'.name = "profileLoaded" /\ op'.log # << >>) =>
          LET g == op'.log[1][1]
              n == nid[op'.log[1][2]]
          IN /\ suspended_tag(g) \in tags[n]
             /\ Len(op'.log) = 1 => tags'[n] = tags[n] \ { suspended_tag(g) } ]_vars

\* ---- C17: the push on answer
\* the cards of the other Records that share a group with the Record of card c
sibling_cards(c) ==
    { x \in CardIds : nid[x] # nid[c] /\ shared_tags(c, x) # {} }

\* C17: when an answer is handled, every card of a sibling Record that was in
\* the review queue and due by today ends due on today + daysOffset, the other
\* cards of the answered Record keep their due, and the count returned is the
\* number of cards whose due was moved.
C17_PushOnAnswer ==
    [][ op'.name = "answer" =>
          /\ \A x \in sibling_cards(op'.arg) :
                (cards[x].queue = QUEUE_REV /\ cards[x].due <= today)
                   => cards'[x].due = today + DAYS_OFFSET
          /\ \A x \in card_ids(nid[op'.arg]) \ { op'.arg } : cards'[x].due = cards[x].due
          /\ op'.ret2 = Cardinality({ x \in CardIds \ { op'.arg } : cards'[x].due # cards[x].due })
      ]_vars

\* ---- C18: what the bury command holds
\* eligible by the state the card had when the answer came
eligible_for_bury(x) ==
    \/ cards[x].queue \in { QUEUE_NEW, QUEUE_LRN }
    \/ (cards[x].queue \in { QUEUE_REV, QUEUE_DAY_LRN } /\ cards[x].due <= today)

commanded(o) == UNION { Range(o.cmds[k]) : k \in 1..Len(o.cmds) }

\* C18: the bury command of an answer holds exactly the eligible cards of the
\* sibling Records, no buried or suspended card, no card of the answered Record,
\* and the answer leaves every suspended card as it was.
C18_BuryEligibility ==
    [][ op'.name = "answer" =>
          /\ commanded(op') = { x \in sibling_cards(op'.arg) : eligible_for_bury(x) }
          /\ \A x \in commanded(op') :
                /\ cards[x].queue \notin { QUEUE_BURIED, QUEUE_SUSPENDED }
                /\ nid[x] # nid[op'.arg]
          /\ \A x \in CardIds : cards[x].queue = QUEUE_SUSPENDED => cards'[x] = cards[x] ]_vars

\* an answer buried a sibling and passed over a suspended one and one not yet due
C18_Witness ==
    /\ op.name = "answer"
    /\ commanded(op) # {}
    /\ \E y, z \in sibling_cards(op.arg) \ commanded(op) :
          /\ cards[y].queue = QUEUE_SUSPENDED
          /\ cards[z].queue \in { QUEUE_REV, QUEUE_DAY_LRN } /\ cards[z].due > today

\* ---- C19: a failing element in a scan
\* C19 for the spread scan: when the update of one card fails the scan does not
\* raise, every other due member after the first is still given its due value,
\* and the count returned is the number of cards changed.
C19_SpreadSurvivesFailure ==
    [][ op'.name = "spreadWithFailures" =>
          LET M   == due_members(op'.g)
              bad == Range(op'.cmds[1])
          IN /\ ~op'.full
             /\ \A c \in M \ bad :
                   rank(M, c) > 0 => cards'[c].due = today + rank(M, c) * DEFAULT_MIN_GAP_DAYS
             /\ op'.ret = Cardinality({ c \in CardIds : cards'[c] # cards[c] }) ]_vars

\* C20: a scan writes the timestamp once, as its last step, after one replay attempt for
\* every Item that has a history entry newer than the timestamp the query read; no Item
\* is attempted twice in a scan and no timestamp write lies between query and replays
stamp_steps(ev) == { k \in 1..Len(ev) : ev[k][1] = "stamp" }
replay_steps(ev, c) == { k \in 1..Len(ev) : ev[k] = <<"replay", c>> }
items_with_new_entries(ev) == { e.cid : e \in { x \in revlog : x.id > ev[1][2] } }
C20_StampAfterReplay ==
    op.name = "sync" =>
        LET ev == op.log
        IN /\ ev[1][1] = "query"
           /\ stamp_steps(ev) = { Len(ev) }
           /\ ev[Len(ev)][2] = last_check
           /\ \A c \in items_with_new_entries(ev) : Cardinality(replay_steps(ev, c)) = 1
           /\ \A k \in 2..(Len(ev) - 1) : ev[k][1] = "replay" /\ ev[k][2] \in items_with_new_entries(ev)
C20_Witness ==
    /\ op.name = "sync"
    /\ \E e1, e2 \in revlog : e1 # e2 /\ e1.cid = e2.cid /\ e1.id > op.log[1][2] /\ e2.id > op.log[1][2]
    /\ Len(op.log) = 3
\* ---- C21: release in ascending id order within a group
\* C21: when a releaseNext pass (profile activation) releases a card, no member with a
\* lower id of a group the card belongs to, suspended with a marker before the
\* pass, is still suspended after it.
C21_ReleaseAscending ==
    [][ op'.name = "profileLoaded" =>
          \A k \in 1..Len(op'.log) :
             LET c == op'.log[k][2] IN
             \A g \in DOMAIN get_all_sibling_groups(tags) :
                c \in members(tags, g) =>
                   \A c2 \in members(tags, g) :
                      (c2 < c /\ is_suspended_sibling(cards, tags, c2) /\ suspBy[c2] = "seq")
                         => cards'[c2].queue # QUEUE_SUSPENDED ]_vars
\* ---- C22: two copies of the engine on the same replicated state
\* what another copy of the engine decides on the same state, scanning the groups in `order`
other_copy(order) == check_and_unsuspend_siblings(cards, tags, revlog, order)

markers(ts) == { t \in ts : startswith(t, SUSPENDED_TAG_PREFIX) }

\* C23: a marker leaves a Record only in a releaseNext pass (profile activation) that
\* released a card of the Record, and a marker arrives only in a mark that suspended a
\* card of the Record; unmark, addToExistingGroup, answer (bury), spread and
\* catch-up leave every Record's markers as they were.
C23_MarkerFrame ==
    [][ \A n \in NoteIds :
          /\ markers(tags[n]) \ markers(tags'[n]) # {} =>
                /\ op'.name = "profileLoaded"
                /\ \E k \in 1..Len(op'.log) : nid[op'.log[k][2]] = n
          /\ markers(tags'[n]) \ markers(tags[n]) # {} =>
                /\ op'.name = "mark"
                /\ markers(tags'[n]) \ markers(tags[n]) = { suspended_tag(op'.g) }
                /\ \E c \in card_ids(n) :
                      cards[c].queue = QUEUE_NEW /\ cards'[c].queue = QUEUE_SUSPENDED ]_vars
\* an unmark took a marked Record out of its groups and the marker stayed
C23_Witness ==
    /\ op.name = "unmark" /\ op.ret = 1
    /\ \E n \in NoteIds : markers(tags[n]) # {} /\ get_sibling_tags_for_note(tags, n) = {}
\* ---- C24: no Record twice in a group's member list
\* C24: in the mapping allGroups() returns, no member list holds a Record twice.
C24_MembersOnce ==
    op.name = "allGroups" =>
       \A i \in 1..Len(op.cmds) :
          \A a, b \in 1..Len(op.cmds[i][2]) : op.cmds[i][2][a] = op.cmds[i][2][b] => a = b
\* ---- C25: catch-up at profile activation
\* the history entries a catch-up scan started now would find
newer_entries == { e \in revlog : e.id > last_check }

\* C25: a profile activation with a Last-Check Timestamp already set runs the catch-up
\* scan: afterwards the timestamp is past every history entry, and no card of another
\* Record that shares a group with a card reviewed since the old timestamp is left
\* for the Bury Coordinator to bury.
C25_CatchUpAtActivation ==
    [][ (op'.name = "profileLoaded" /\ last_check # 0) =>
          /\ \A e \in revlog : e.id <= last_check'
          /\ \A e \in newer_entries :
                e.cid \in CardIds => cards_to_bury(cards', tags', today, e.cid) = {} ]_vars
\* ---- C26: every Sequencer-suspended card is released in the end
\* the groups of the Record of card c
groups_of(c) == { extract_group_name(t) : t \in get_sibling_tags_for_note(tags, nid[c]) }

\* c still waits for a review: a member of one of its groups is new, not suspended
\* and has no recorded review
waits_for_review(c) ==
    \E g \in groups_of(c) : \E x \in members(tags, g) :
       cards[x].queue # QUEUE_SUSPENDED /\ cards[x].type = TYPE_NEW /\ has_reviews(revlog, x) = 0

\* a releaseNext pass run now would release a card
release_pending ==
    \E order \in Perms(DOMAIN get_all_sibling_groups(tags)) :
       check_and_unsuspend_siblings(cards, tags, revlog, order).ret > 0

\* C26: a card suspended by the Sequencer does not stay suspended for ever once every
\* open new member of its groups has its review and the releaseNext passes have
\* nothing left to release: it becomes active again, or it still waits for a review,
\* or a further pass still has a release to make.
C26_EventuallyReleased ==
    \A c \in CardIds :
       (cards[c].queue = QUEUE_SUSPENDED /\ suspBy[c] = "seq")
          ~> (cards[c].queue # QUEUE_SUSPENDED \/ waits_for_review(c) \/ release_pending)
\* ---- C27: the marker tells that a card of the Record waits
\* C27: a Record carries a Suspension Marker exactly when one of its cards was
\* suspended by the Sequencer and has not been released yet.
C27_MarkerIffWaiting ==
    \A n \in NoteIds :
       markers(tags[n]) # {}
          <=> \E c \in card_ids(n) : cards[c].queue = QUEUE_SUSPENDED /\ suspBy[c] = "seq"
\* ---- C28: spread run twice
\* C28: a spread of a group that directly follows a spread of the same group, on the
\* same day and with gaps of at least 1, reschedules no card and changes no due value.
C28_SpreadIdempotent ==
    [][ ( /\ op.name = "spread" /\ op'.name = "spread"
          /\ op'.g = op.g /\ op.arg >= 1 /\ op'.arg >= 1 /\ today' = today )
        => (op'.ret = 0 /\ cards' = cards) ]_vars
\* the second spread of the only group found nothing to move: the dues the first
\* one wrote with gap 2 are in place
C28_Witness ==
    /\ op.name = "spread" /\ op.ret = 0 /\ op.arg = 2
    /\ DOMAIN get_all_sibling_groups(tags) = { op.g }
    /\ \E a, b, c \in members(tags, op.g) :
          /\ cards[a].queue = QUEUE_REV /\ cards[a].due <= today
          /\ cards[b].queue = QUEUE_REV /\ cards[b].due = today + 2
          /\ cards[c].queue = QUEUE_REV /\ cards[c].due = today + 4
====
